---- MODULE Spec2Model ----
(***************************************************************************)
(* Model of aiob2.bucket.Client (src/aiob2/bucket.py): the page loop of    *)
(* list_file_names and the bucket cache behind list_buckets,               *)
(* get_bucket_from_name and upload_file, above the HTTP transport          *)
(* (aiob2.http.HTTPClient), which is modelled from its contract.           *)
(*                                                                         *)
(* Encodings.  An Optional value is a sequence of length at most one:      *)
(* None is <<>> and a present value v is <<v>>.  A list of File entries    *)
(* is kept run-length encoded: the entries the transport serves are        *)
(* numbered 1, 2, 3, ... in the order it serves them, and a list is the    *)
(* sequence of its maximal runs [first |-> i, n |-> k] (entries i..i+k-1). *)
(* Concatenation merges adjacent runs, so equal lists have equal           *)
(* encodings and a page of 10000 entries is one run.                       *)
(***************************************************************************)
EXTENDS Integers, Sequences, FiniteSets, TLC

\* ------------------------------------------------------------------------
\* Program constants
\* ------------------------------------------------------------------------

\* bucket.py:103, the cap used when max_file_count is not given
DefaultMaxFileCount == 100

\* bucket.py:104-105, the largest page size the first request asks for
TransportMaxFileCount == 10000

\* ------------------------------------------------------------------------
\* Bounds of the model
\* ------------------------------------------------------------------------

\* explicit caps 0..MaxSmallCap are tried, besides the large ones
MaxSmallCap == 4

\* a fixed-page-size transport holds 0..MaxTotal entries
MaxTotal == 4

\* a fixed-page-size transport serves pages of 1..MaxFixedPage entries
MaxFixedPage == 3

\* an unconstrained transport serves pages of 0..MaxFreePage entries
\* (besides full pages of DefaultMaxFileCount and TransportMaxFileCount)
MaxFreePage == 2

\* page requests one list_file_names call may issue before the model stops it
MaxRequests == 4

\* calls of list_buckets, get_bucket_from_name and upload_file on the client
NumCalls == 3

\* ------------------------------------------------------------------------
\* Optional values
\* ------------------------------------------------------------------------

None == <<>>

Some(v) == <<v>>

Val(o) == o[1]

Min(a, b) == IF a <= b THEN a ELSE b

\* ------------------------------------------------------------------------
\* Lists of File entries (run-length encoded)
\* ------------------------------------------------------------------------

EmptyList == <<>>

Run(first, n) == [first |-> first, n |-> n]

\* the list holding entries first .. first+n-1
Entries(first, n) == IF n = 0 THEN EmptyList ELSE <<Run(first, n)>>

\* an assignment in place of the concatenation: files = ...
Concat_Replaces(a, b) == b

\* a \o b on the encoded lists, for b of at most one run
Concat(a, b) ==
    IF b = EmptyList THEN a
    ELSE IF a = EmptyList THEN b
    ELSE LET last == a[Len(a)]
             r == b[1]
         IN IF last.first + last.n = r.first
            THEN [a EXCEPT ![Len(a)] = Run(last.first, last.n + r.n)]
            ELSE Append(a, r)

RECURSIVE Length(_)
\* len(list)
Length(l) == IF l = EmptyList THEN 0 ELSE l[1].n + Length(Tail(l))

\* ------------------------------------------------------------------------
\* State
\* ------------------------------------------------------------------------

VARIABLES
    transport,   \* how the transport pages during the list_file_names call
    served,      \* entries the transport has served so far
    requests,    \* the transport's record of list_file_names requests
    responses,   \* the transport's record of the pages it returned
    failedAt,    \* the request number the transport failed on, and its error
    lfnPc,       \* position of the list_file_names call
    lfnArgs,     \* its arguments
    lfn,         \* its local variables
    lfnResult,   \* the list it returned
    lfnError,    \* the error it raised
    bucket_list, \* Client._bucket_list, the bucket cache
    calls,       \* the calls of list_buckets, get_bucket_from_name, upload_file
    fetchLog,    \* the transport's record of _get_list_buckets requests
    uploadLog,   \* the transport's record of upload_file requests
    session,     \* HTTPClient._session, the HTTP session the client holds
    scope,       \* position of the `async with` block around the client
    scopeExc,    \* the exception the block was left by
    closePc,     \* position of the close call under way
    closeRuns,   \* calls of close so far
    closeError   \* the error the last close raised

listVars == <<transport, served, requests, responses, failedAt,
              lfnPc, lfnArgs, lfn, lfnResult, lfnError>>

bucketVars == <<bucket_list, calls, fetchLog, uploadLog>>

scopeVars == <<scope, scopeExc, closePc, closeRuns, closeError>>

vars == <<transport, served, requests, responses, failedAt,
          lfnPc, lfnArgs, lfn, lfnResult, lfnError,
          bucket_list, calls, fetchLog, uploadLog,
          session, scope, scopeExc, closePc, closeRuns, closeError>>

\* ------------------------------------------------------------------------
\* The HTTP session and the client's scope
\* ------------------------------------------------------------------------

\* an aiohttp.ClientSession, open or closed
OpenSession == [closed |-> FALSE]

\* lines 26-33: the session argument of the constructor, None by default
SessionArgs == {None, Some(OpenSession)}

\* the transport opens a session on its first request when it holds none
SessionAfterUse(s) == IF s = None THEN Some(OpenSession) ELSE s

\* ClientSession.close(): the session is closed, whether it was or not
SessionClosed(s) == Some([Val(s) EXCEPT !.closed = TRUE])

\* the exception _exc_val handed to __aexit__, None on a normal exit
ExitExceptions == {None, Some("Exception")}

\* an __aexit__ that releases the session on a normal exit only
ExitRunsClose_OnlyNormal(exc) == exc = None

\* lines 39-40: __aexit__ awaits close whatever the exception is
ExitRunsClose(exc) == TRUE

\* line 44: isinstance(self._http._session, aiohttp.ClientSession)
HoldsSession(s) == s # None

\* lines 42-45: close as far as its first await, or to its end
CloseBegins(s) ==
    IF HoldsSession(s)
    THEN IF s = None
         THEN [pc |-> "idle", error |-> Some("AttributeError")]
         ELSE [pc |-> "awaiting", error |-> None]
    ELSE [pc |-> "idle", error |-> None]

\* the client has not been closed and its block has not been left
InUse == closeRuns = 0 /\ closePc = "idle" /\ scope \in {"out", "in"}

\* ------------------------------------------------------------------------
\* Inputs
\* ------------------------------------------------------------------------

LargeCaps == {DefaultMaxFileCount, TransportMaxFileCount,
              TransportMaxFileCount + 1, 5 * TransportMaxFileCount}

\* max_file_count: omitted, 0, small, the default, around and above the clamp
Caps == {None} \cup {Some(n) : n \in (0..MaxSmallCap) \cup LargeCaps}

\* the other arguments of list_file_names: all omitted, or all given
ListArgs(cap) ==
    { [bucket_id |-> "b1", start_file_name |-> None, max_file_count |-> cap,
       prefix |-> None, delimiter |-> None],
      [bucket_id |-> "b1", start_file_name |-> Some(0), max_file_count |-> cap,
       prefix |-> Some("p"), delimiter |-> Some("/")] }

\* errors the transport raises for a non-2xx response
BackendErrors == {"BackendError(400)", "BackendError(503)"}

FixedTransports ==
    { [mode |-> "fixed", P |-> p, total |-> t] :
        p \in 1..MaxFixedPage, t \in 0..MaxTotal }

Transports == FixedTransports \cup { [mode |-> "free", P |-> 0, total |-> 0] }

FreePages == (0..MaxFreePage) \cup {DefaultMaxFileCount, TransportMaxFileCount}

\* ------------------------------------------------------------------------
\* The transport's list_file_names (aiob2.http, from its contract)
\* ------------------------------------------------------------------------

\* a page: n entries following those already served, and the marker
Page(n, more) ==
    [files |-> Entries(served + 1, n),
     nextFileName |-> IF more THEN Some(served + n + 1) ELSE None]

\* the pages the transport may answer the pending request with
PagesServed ==
    IF transport.mode = "fixed"
    THEN LET n == Min(transport.P, transport.total - served)
         IN { Page(n, served + n < transport.total) }
    ELSE { Page(n, more) : n \in FreePages, more \in BOOLEAN }

\* ------------------------------------------------------------------------
\* Client.list_file_names
\* ------------------------------------------------------------------------

\* a ListInit whose default cap is the transport's maximum
ListInit_DefaultIsMaximum(args) ==
    LET given == args.max_file_count
    IN [files |-> EmptyList,
        continue_iteration |-> TRUE,
        initial_max_file_count |->
            IF given = None THEN TransportMaxFileCount ELSE Val(given),
        actual_file_count |-> 0,
        max_file_count |->
            IF given = None THEN None
            ELSE IF Val(given) > TransportMaxFileCount
                 THEN Some(TransportMaxFileCount)
                 ELSE given,
        start_file_name |-> args.start_file_name]

\* lines 97-107: the locals before the loop
ListInit(args) ==
    LET given == args.max_file_count
    IN [files |-> EmptyList,
        continue_iteration |-> TRUE,
        initial_max_file_count |->
            IF given = None THEN DefaultMaxFileCount ELSE Val(given),
        actual_file_count |-> 0,
        max_file_count |->
            IF given = None THEN None
            ELSE IF Val(given) > TransportMaxFileCount
                 THEN Some(TransportMaxFileCount)
                 ELSE given,
        start_file_name |-> args.start_file_name]

\* a request that always starts from the caller's start_file_name
ListRequest_KeepsStart(args, l) ==
    [bucket_id |-> args.bucket_id,
     start_file_name |-> args.start_file_name,
     max_file_count |-> l.max_file_count,
     prefix |-> args.prefix,
     delimiter |-> args.delimiter]

\* lines 110-117: the request the loop issues
ListRequest(args, l) ==
    [bucket_id |-> args.bucket_id,
     start_file_name |-> l.start_file_name,
     max_file_count |-> l.max_file_count,
     prefix |-> args.prefix,
     delimiter |-> args.delimiter]

\* a count that is never advanced
CountAfterPage_NotAdvanced(count, files) == count

\* line 122: actual_file_count += len(files), files being the whole list
CountAfterPage(count, files) == count + Length(files)

\* a next request that asks for the whole cap again
NextPageSize_WholeCap(initial, count) == Some(initial)

\* lines 124-127: the page size of the next request
NextPageSize(initial, count) == Some(initial - count)

\* a test of the cap with > for >=
CapReached_Strict(count, initial) == count > initial

\* line 124: actual_file_count >= initial_max_file_count
CapReached(count, initial) == count >= initial

\* a test that stops only when the cap is reached and the marker is absent
StopIteration_BothNeeded(count, initial, marker) ==
    CapReached(count, initial) /\ marker = None

\* line 124: the cap is reached, or start_file_name is None
StopIteration(count, initial, marker) ==
    CapReached(count, initial) \/ marker = None

\* lines 119-127: the locals after a page came back
ListAfterPage(l, data) ==
    LET files == Concat(l.files, data.files)
        count == CountAfterPage(l.actual_file_count, files)
        stop == StopIteration(count, l.initial_max_file_count, data.nextFileName)
    IN [l EXCEPT
          !.files = files,
          !.start_file_name = data.nextFileName,
          !.actual_file_count = count,
          !.continue_iteration = ~stop,
          !.max_file_count =
              IF stop THEN @ ELSE NextPageSize(l.initial_max_file_count, count)]

\* the call starts: lines 97-107
ListFileNamesCall ==
    /\ lfnPc = "idle"
    /\ InUse
    /\ \E cap \in Caps : \E args \in ListArgs(cap) :
          /\ lfnArgs' = args
          /\ lfn' = ListInit(args)
    /\ transport' \in Transports
    /\ lfnPc' = "loop"
    /\ UNCHANGED <<served, requests, responses, failedAt, lfnResult, lfnError>>
    /\ UNCHANGED bucketVars
    /\ UNCHANGED session
    /\ UNCHANGED scopeVars

\* lines 109-118: the loop goes round and the request is sent
ListSendRequest ==
    /\ lfnPc = "loop"
    /\ lfn.continue_iteration
    /\ Len(requests) < MaxRequests
    /\ requests' = Append(requests, ListRequest(lfnArgs, lfn))
    /\ lfnPc' = "await"
    /\ UNCHANGED <<transport, served, responses, failedAt,
                   lfnArgs, lfn, lfnResult, lfnError>>
    /\ UNCHANGED bucketVars
    /\ session' = SessionAfterUse(session)
    /\ UNCHANGED scopeVars

\* lines 118-127: the transport answers with a page
ListReceivePage ==
    /\ lfnPc = "await"
    /\ \E data \in PagesServed :
          /\ responses' = Append(responses, data)
          /\ served' = served + Length(data.files)
          /\ lfn' = ListAfterPage(lfn, data)
    /\ lfnPc' = "loop"
    /\ UNCHANGED <<transport, requests, failedAt, lfnArgs, lfnResult, lfnError>>
    /\ UNCHANGED bucketVars
    /\ UNCHANGED session
    /\ UNCHANGED scopeVars

\* a list_file_names that catches the error and returns what it has
ListOnError_ReturnsPartial(e) ==
    [pc |-> "returned", result |-> Some(lfn.files), error |-> None]

\* what list_file_names does with an error of the transport: nothing, so the
\* error leaves the call (lines 110-118 stand in no try block)
ListOnError(e) == [pc |-> "raised", result |-> None, error |-> Some(e)]

\* lines 110-118: the transport raises
ListTransportFails ==
    /\ lfnPc = "await"
    /\ \E e \in BackendErrors :
          /\ failedAt' = Some([request |-> Len(requests), error |-> e])
          /\ lfnPc' = ListOnError(e).pc
          /\ lfnResult' = ListOnError(e).result
          /\ lfnError' = ListOnError(e).error
    /\ UNCHANGED <<transport, served, requests, responses, lfnArgs, lfn>>
    /\ UNCHANGED bucketVars
    /\ UNCHANGED session
    /\ UNCHANGED scopeVars

\* lines 109, 129: the loop ends and the list is returned
ListReturn ==
    /\ lfnPc = "loop"
    /\ ~lfn.continue_iteration
    /\ lfnResult' = Some(lfn.files)
    /\ lfnPc' = "returned"
    /\ UNCHANGED <<transport, served, requests, responses, failedAt,
                   lfnArgs, lfn, lfnError>>
    /\ UNCHANGED bucketVars
    /\ UNCHANGED session
    /\ UNCHANGED scopeVars

ListInitState ==
    /\ transport = None
    /\ served = 0
    /\ requests = <<>>
    /\ responses = <<>>
    /\ failedAt = None
    /\ lfnPc = "idle"
    /\ lfnArgs = None
    /\ lfn = None
    /\ lfnResult = None
    /\ lfnError = None

NextList ==
    \/ ListFileNamesCall
    \/ ListSendRequest
    \/ ListReceivePage
    \/ ListTransportFails
    \/ ListReturn

\* ------------------------------------------------------------------------
\* Buckets: inputs
\* ------------------------------------------------------------------------

Calls == 1..NumCalls

BucketInfo(name, id) == [bucketName |-> name, bucketId |-> id]

\* the account's bucket list as the transport may return it: empty, or a list
\* where "A" comes before two buckets named "a"
BucketLists ==
    { <<>>,
      <<BucketInfo("A", "4"), BucketInfo("a", "1"), BucketInfo("a", "3"),
        BucketInfo("b", "2")>> }

\* names looked up: one some lists hold, one no list holds
BucketNames == {"a", "c"}

NoOp == [name |-> "none", bucket_id |-> None, bucket_name |-> None]

ListBucketsOp ==
    [name |-> "list_buckets", bucket_id |-> None, bucket_name |-> None]

GetOps ==
    { [name |-> "get_bucket_from_name", bucket_id |-> None,
       bucket_name |-> Some(n)] : n \in BucketNames }

\* upload_file by name (found, not found), by id, and with both
UploadOps ==
    { [name |-> "upload_file", bucket_id |-> None, bucket_name |-> Some(n)] :
        n \in BucketNames }
    \cup { [name |-> "upload_file", bucket_id |-> Some("x"), bucket_name |-> n] :
             n \in {None, Some("a")} }

\* the error the transport raises on a bucket-list fetch or an upload
BucketBackendErrors == {"BackendError(401)"}

BackendError(e) == [kind |-> "backend", detail |-> Some(e)]

\* line 68: BackblazeException(f"Unknown bucket {bucket_name}")
UnknownBucket(bucket_name) == [kind |-> "unknown_bucket", detail |-> bucket_name]

IdleCall ==
    [pc |-> "idle", op |-> NoOp, bucket_list |-> None, bucket_id |-> None,
     result |-> None, error |-> None]

\* ------------------------------------------------------------------------
\* Client.list_buckets, get_bucket_from_name, upload_file
\* ------------------------------------------------------------------------

\* a list_buckets that fetches on every call
NeedsFetch_Always(cache) == TRUE

\* a list_buckets that tests the list for truth: if not self._bucket_list
NeedsFetch_WhenFalsy(cache) == cache = None \/ cache = Some(<<>>)

\* line 48: if self._bucket_list is None
NeedsFetch(cache) == cache = None

\* line 49: self._bucket_list = <what the transport returned>
StoreFetched(cache, list) == Some(list)

\* a list_buckets that forgets its list when a fetch fails
CacheAfterFailure_Cleared(cache) == None

\* a list_buckets that turns a failed fetch into an empty list and keeps it
CacheAfterFailure_EmptyList(cache) == Some(<<>>)

\* line 49, the transport raising: the assignment does not happen
CacheAfterFailure(cache) == cache

Lower(s) == IF s = "A" THEN "a" ELSE s

\* a comparison that ignores case
NameMatches_IgnoringCase(bucket, bucket_name) ==
    bucket_name # None /\ Lower(bucket.bucketName) = Lower(Val(bucket_name))

\* line 64: bucket.bucketName == bucket_name
NameMatches(bucket, bucket_name) == Some(bucket.bucketName) = bucket_name

RECURSIVE ScanFrom(_, _, _)
\* lines 63-65: the first bucket from position i on that matches, if any
ScanFrom(list, bucket_name, i) ==
    IF i > Len(list) THEN None
    ELSE IF NameMatches(list[i], bucket_name) THEN Some(list[i])
    ELSE ScanFrom(list, bucket_name, i + 1)

\* an upload_file that resolves the name whenever one is given
UploadNeedsResolve_WhenNamed(op) == op.bucket_name # None

\* line 160: if bucket_id is None
UploadNeedsResolve(op) == op.bucket_id = None

\* lines 164-170: the request upload_file sends
UploadRequest(c, bucket_id) == [call |-> c, bucket_id |-> bucket_id]

\* an upload_file that passes the bucket's name on as its id
ResolvedId_IsName(bucket) == bucket.bucketName

\* line 162: bucket_id = bucket.bucketId
ResolvedId(bucket) == bucket.bucketId

\* lines 50, 61-68, 161-170: what the call does once list_buckets has handed
\* it the list, up to its end or to the upload request
AfterListBuckets(op, list) ==
    IF op.name = "list_buckets"
    THEN [IdleCall EXCEPT !.pc = "done", !.op = op, !.result = Some(list)]
    ELSE LET found == ScanFrom(list, op.bucket_name, 1)
             scanned == [IdleCall EXCEPT !.op = op, !.bucket_list = Some(list)]
         IN IF found = None
            THEN [scanned EXCEPT !.pc = "raised",
                                 !.error = Some(UnknownBucket(op.bucket_name))]
            ELSE IF op.name = "get_bucket_from_name"
            THEN [scanned EXCEPT !.pc = "done", !.result = found]
            ELSE [scanned EXCEPT !.pc = "uploading",
                                 !.bucket_id = Some(ResolvedId(Val(found)))]

\* the call goes on with the list, and sends its upload request if it has one
GoOn(c, op, list) ==
    LET after == AfterListBuckets(op, list)
    IN /\ calls' = [calls EXCEPT ![c] = after]
       /\ uploadLog' = IF after.pc = "uploading"
                       THEN Append(uploadLog, UploadRequest(c, Val(after.bucket_id)))
                       ELSE uploadLog
       /\ session' = IF after.pc = "uploading"
                     THEN SessionAfterUse(session)
                     ELSE session

\* lines 47-50 from the start of a call: the cached list, or the fetch is sent
EnterListBuckets(c, op) ==
    IF NeedsFetch(bucket_list)
    THEN /\ calls' = [calls EXCEPT ![c] = [IdleCall EXCEPT !.pc = "fetching", !.op = op]]
         /\ fetchLog' = Append(fetchLog, [call |-> c, outcome |-> "pending"])
         /\ session' = SessionAfterUse(session)
         /\ UNCHANGED <<bucket_list, uploadLog>>
    ELSE /\ GoOn(c, op, Val(bucket_list))
         /\ UNCHANGED <<bucket_list, fetchLog>>

\* calls are taken in the order of their numbers
MayStart(c) ==
    /\ calls[c].pc = "idle"
    /\ InUse
    /\ IF c = 1 THEN TRUE ELSE calls[c - 1].pc # "idle"

\* the fetch of call c is answered
Answered(c, outcome) ==
    [i \in 1..Len(fetchLog) |->
        IF fetchLog[i].call = c /\ fetchLog[i].outcome = "pending"
        THEN [fetchLog[i] EXCEPT !.outcome = outcome]
        ELSE fetchLog[i]]

\* list_buckets is called: lines 47-50
ListBucketsCall(c) ==
    /\ MayStart(c)
    /\ EnterListBuckets(c, ListBucketsOp)
    /\ UNCHANGED listVars
    /\ UNCHANGED scopeVars

\* get_bucket_from_name is called: lines 61-68
GetBucketFromNameCall(c) ==
    /\ MayStart(c)
    /\ \E op \in GetOps : EnterListBuckets(c, op)
    /\ UNCHANGED listVars
    /\ UNCHANGED scopeVars

\* upload_file is called: lines 160-170
UploadFileCall(c) ==
    /\ MayStart(c)
    /\ \E op \in UploadOps :
          IF UploadNeedsResolve(op)
          THEN EnterListBuckets(c, op)
          ELSE /\ calls' = [calls EXCEPT ![c] =
                              [IdleCall EXCEPT !.pc = "uploading", !.op = op,
                                               !.bucket_id = op.bucket_id]]
               /\ uploadLog' = Append(uploadLog, UploadRequest(c, Val(op.bucket_id)))
               /\ session' = SessionAfterUse(session)
               /\ UNCHANGED <<bucket_list, fetchLog>>
    /\ UNCHANGED listVars
    /\ UNCHANGED scopeVars

\* lines 49-50 and on: _get_list_buckets returns a list
FetchReturns(c) ==
    /\ calls[c].pc = "fetching"
    /\ \E list \in BucketLists :
          /\ bucket_list' = StoreFetched(bucket_list, list)
          /\ GoOn(c, calls[c].op, Val(bucket_list'))
    /\ fetchLog' = Answered(c, "ok")
    /\ UNCHANGED listVars
    /\ UNCHANGED scopeVars

\* line 49: _get_list_buckets raises
FetchFails(c) ==
    /\ calls[c].pc = "fetching"
    /\ \E e \in BucketBackendErrors :
          calls' = [calls EXCEPT ![c].pc = "raised",
                                 ![c].error = Some(BackendError(e))]
    /\ bucket_list' = CacheAfterFailure(bucket_list)
    /\ fetchLog' = Answered(c, "failed")
    /\ UNCHANGED <<uploadLog, session>>
    /\ UNCHANGED listVars
    /\ UNCHANGED scopeVars

\* lines 164-172: the transport's upload_file returns
UploadReturns(c) ==
    /\ calls[c].pc = "uploading"
    /\ calls' = [calls EXCEPT ![c].pc = "done",
                              ![c].result = Some([file |-> "uploaded",
                                                  bucket_id |-> calls[c].bucket_id])]
    /\ UNCHANGED <<bucket_list, fetchLog, uploadLog, session>>
    /\ UNCHANGED listVars
    /\ UNCHANGED scopeVars

\* lines 164-171: the transport's upload_file raises
UploadFails(c) ==
    /\ calls[c].pc = "uploading"
    /\ \E e \in BucketBackendErrors :
          calls' = [calls EXCEPT ![c].pc = "raised",
                                 ![c].error = Some(BackendError(e))]
    /\ UNCHANGED <<bucket_list, fetchLog, uploadLog, session>>
    /\ UNCHANGED listVars
    /\ UNCHANGED scopeVars

\* line 34: the cache is empty; no call has been made
BucketInitState ==
    /\ bucket_list = None
    /\ calls = [c \in Calls |-> IdleCall]
    /\ fetchLog = <<>>
    /\ uploadLog = <<>>

\* calls run concurrently: any call may take its next step
NextBuckets ==
    \E c \in Calls :
        \/ ListBucketsCall(c)
        \/ GetBucketFromNameCall(c)
        \/ UploadFileCall(c)
        \/ FetchReturns(c)
        \/ FetchFails(c)
        \/ UploadReturns(c)
        \/ UploadFails(c)

\* no other call is under way
Alone(c) == \A d \in Calls \ {c} : calls[d].pc \in {"idle", "done", "raised"}

\* calls run one after the other
NextBucketsSeq ==
    \E c \in Calls :
        \/ Alone(c) /\ ListBucketsCall(c)
        \/ Alone(c) /\ GetBucketFromNameCall(c)
        \/ Alone(c) /\ UploadFileCall(c)
        \/ Alone(c) /\ FetchReturns(c)
        \/ Alone(c) /\ FetchFails(c)
        \/ Alone(c) /\ UploadReturns(c)
        \/ Alone(c) /\ UploadFails(c)

\* ------------------------------------------------------------------------
\* Scoped acquisition and close
\* ------------------------------------------------------------------------

\* explicit calls of close the model lets the caller make
MaxExplicitCloses == 1

\* no call on the client is under way
Quiet ==
    /\ \A c \in Calls : calls[c].pc \in {"idle", "done", "raised"}
    /\ lfnPc \in {"idle", "returned", "raised"}

\* lines 36-37: __aenter__ returns the client
AEnter ==
    /\ scope = "out"
    /\ closePc = "idle"
    /\ Quiet
    /\ scope' = "in"
    /\ UNCHANGED <<session, scopeExc, closePc, closeRuns, closeError>>
    /\ UNCHANGED listVars
    /\ UNCHANGED bucketVars

\* lines 39-40: the block is left and __aexit__ runs, as far as the await
\* inside close
AExit ==
    /\ scope = "in"
    /\ closePc = "idle"
    /\ Quiet
    /\ \E exc \in ExitExceptions :
          /\ scopeExc' = exc
          /\ IF ExitRunsClose(exc)
             THEN /\ closePc' = CloseBegins(session).pc
                  /\ closeError' = CloseBegins(session).error
                  /\ closeRuns' = closeRuns + 1
                  /\ scope' = IF closePc' = "awaiting" THEN "exiting" ELSE "exited"
             ELSE /\ scope' = "exited"
                  /\ UNCHANGED <<closePc, closeRuns, closeError>>
    /\ UNCHANGED session
    /\ UNCHANGED listVars
    /\ UNCHANGED bucketVars

\* lines 42-45: the caller calls close
CloseCall ==
    /\ scope \in {"out", "in"}
    /\ closePc = "idle"
    /\ closeRuns < MaxExplicitCloses
    /\ Quiet
    /\ closePc' = CloseBegins(session).pc
    /\ closeError' = CloseBegins(session).error
    /\ closeRuns' = closeRuns + 1
    /\ UNCHANGED <<session, scope, scopeExc>>
    /\ UNCHANGED listVars
    /\ UNCHANGED bucketVars

\* line 45: the session's close returns, and with it close; __aexit__
\* returns if it was the caller
SessionCloseReturns ==
    /\ closePc = "awaiting"
    /\ session' = SessionClosed(session)
    /\ closePc' = "idle"
    /\ scope' = IF scope = "exiting" THEN "exited" ELSE scope
    /\ UNCHANGED <<scopeExc, closeRuns, closeError>>
    /\ UNCHANGED listVars
    /\ UNCHANGED bucketVars

\* the client is constructed with the session it is given: lines 26-34
ScopeInitState(s) ==
    /\ session = s
    /\ scope = "out"
    /\ scopeExc = None
    /\ closePc = "idle"
    /\ closeRuns = 0
    /\ closeError = None

\* the client in and around its block, its calls one after the other
NextScope ==
    \/ AEnter
    \/ AExit
    \/ CloseCall
    \/ SessionCloseReturns
    \/ NextBucketsSeq

\* ------------------------------------------------------------------------
\* Specifications
\* ------------------------------------------------------------------------

Init == ListInitState /\ BucketInitState /\ ScopeInitState(None)

\* the same, for a client constructed with or without a session
InitScope ==
    ListInitState /\ BucketInitState /\ \E s \in SessionArgs : ScopeInitState(s)

Next == NextList \/ NextBuckets

\* the whole client
Spec == Init /\ [][Next]_vars

\* one list_file_names call
SpecList == Init /\ [][NextList]_vars

\* concurrent calls on the bucket cache
SpecBuckets == Init /\ [][NextBuckets]_vars

\* calls on the bucket cache, one after the other
SpecBucketsSeq == Init /\ [][NextBucketsSeq]_vars

\* the client used as an asynchronous context manager
SpecScope == InitScope /\ [][NextScope]_vars

\* lines 97-129 as a function of the pages the transport answers with: the
\* requests issued and the outcome once the pages resps have been consumed
\* ("await": one more request is out and no page is left to answer it)
RECURSIVE ListReplay(_, _, _, _)
ListReplay(args, l, reqs, resps) ==
    IF ~l.continue_iteration
    THEN [pc |-> "returned", requests |-> reqs, result |-> Some(l.files)]
    ELSE IF resps = <<>>
    THEN [pc |-> "await", requests |-> Append(reqs, ListRequest(args, l)),
          result |-> None]
    ELSE ListReplay(args, ListAfterPage(l, Head(resps)),
                    Append(reqs, ListRequest(args, l)), Tail(resps))

ListRun(args, resps) == ListReplay(args, ListInit(args), <<>>, resps)

\* ------------------------------------------------------------------------
\* Claims about list_file_names
\* ------------------------------------------------------------------------

WithCap(args, cap) == [args EXCEPT !.max_file_count = cap]

Called == lfnPc # "idle"

ExplicitCap == Called /\ lfnArgs.max_file_count # None

\* C1: against a transport serving pages of a fixed size P, a call with cap
\* C >= 1 that returns has at least min(C, total available) entries.
C1_AtLeastCapOrAll ==
    (/\ lfnPc = "returned"
     /\ transport.mode = "fixed"
     /\ ExplicitCap
     /\ Val(lfnArgs.max_file_count) >= 1)
    => Length(Val(lfnResult)) >=
          Min(Val(lfnArgs.max_file_count), transport.total)

\* C2: no page request, the first or a later one, carries a page_size above
\* 10000, whatever the cap.
C2_PageSizeClamped ==
    \A i \in 1..Len(requests) :
        requests[i].max_file_count # None
        => Val(requests[i].max_file_count) <= TransportMaxFileCount

\* C3: a call with cap 0 that has returned went on until 100 entries were
\* accumulated or the marker was absent, and cap 100 fed the same pages has
\* returned as well, with the same entries.
C3_ZeroIsDefault ==
    (lfnPc = "returned" /\ lfnArgs.max_file_count = Some(0))
    => /\ \/ Length(Val(lfnResult)) >= DefaultMaxFileCount
          \/ lfn.start_file_name = None
       /\ LET r == ListRun(WithCap(lfnArgs, Some(DefaultMaxFileCount)), responses)
          IN r.pc = "returned" /\ r.result = lfnResult

\* C4 as stated: a call without a cap issues the same page requests (the first
\* with page_size 100) and returns the same entries as cap 100 fed the same
\* pages.
C4_OmittedSameRequests ==
    (lfnPc \in {"await", "returned"} /\ lfnArgs.max_file_count = None)
    => LET r == ListRun(WithCap(lfnArgs, Some(DefaultMaxFileCount)), responses)
       IN r.pc = lfnPc /\ r.result = lfnResult /\ r.requests = requests

\* C4 as amended: a call without a cap, fed the same pages as a call with cap
\* 100, stops after the same page, returns the same entries and issues the
\* same requests, except that its first request carries no page_size (None)
\* where cap 100 carries 100.
C4_OmittedSameButFirstPageSize ==
    (lfnPc \in {"await", "returned"} /\ lfnArgs.max_file_count = None)
    => LET r == ListRun(WithCap(lfnArgs, Some(DefaultMaxFileCount)), responses)
       IN /\ r.pc = lfnPc
          /\ r.result = lfnResult
          /\ Len(r.requests) = Len(requests)
          /\ \A i \in 1..Len(requests) :
                IF i = 1
                THEN /\ requests[1].max_file_count = None
                     /\ r.requests[1] =
                          [requests[1] EXCEPT
                             !.max_file_count = Some(DefaultMaxFileCount)]
                ELSE r.requests[i] = requests[i]

\* a call without a cap went through several pages and returned
C4_Witness ==
    /\ lfnPc = "returned"
    /\ lfnArgs.max_file_count = None
    /\ Len(requests) >= 3
    /\ Length(Val(lfnResult)) >= 2

\* C5: once the transport has failed on a page request, the call has failed
\* with that same error, has returned no list, and no request follows the one
\* that failed; the call fails in no other way.
C5_ErrorPropagates ==
    /\ failedAt # None
       => /\ lfnPc = "raised"
          /\ lfnError = Some(Val(failedAt).error)
          /\ lfnResult = None
          /\ Len(requests) = Val(failedAt).request
    /\ lfnPc = "raised" => failedAt # None

\* the transport failed on a later request, entries being accumulated already
C5_Witness ==
    /\ lfnPc = "raised"
    /\ Val(failedAt).request >= 2
    /\ Length(lfn.files) >= 1
    /\ lfnResult = None

\* ------------------------------------------------------------------------
\* Claims about the bucket cache
\* ------------------------------------------------------------------------

Started(c) == calls[c].pc # "idle"

Finished(c) == calls[c].pc \in {"done", "raised"}

\* the call goes through list_buckets
UsesBuckets(op) ==
    \/ op.name \in {"list_buckets", "get_bucket_from_name"}
    \/ op.name = "upload_file" /\ op.bucket_id = None

FetchesBy(c) == {i \in 1..Len(fetchLog) : fetchLog[i].call = c}

UploadsBy(c) == {i \in 1..Len(uploadLog) : uploadLog[i].call = c}

NoFetchFailed == \A i \in 1..Len(fetchLog) : fetchLog[i].outcome # "failed"

\* C6: with the calls made one after the other, the first call that goes
\* through list_buckets issues the first fetch, and if that fetch does not
\* fail no other fetch is ever issued, whatever the later calls look up.
C6_OneFetchSequential ==
    LET users == {c \in Calls : Started(c) /\ UsesBuckets(calls[c].op)}
    IN IF users = {}
       THEN fetchLog = <<>>
       ELSE /\ Len(fetchLog) >= 1
            /\ \A c \in users : fetchLog[1].call <= c
            /\ fetchLog[1].call \in users
            /\ fetchLog[1].outcome # "failed" => Len(fetchLog) = 1

\* every call is over: lookups of two names, one of them not found, after one
\* fetch
C6_Witness ==
    /\ \A c \in Calls : Finished(c) /\ UsesBuckets(calls[c].op)
    /\ \E c \in Calls : calls[c].error = Some(UnknownBucket(Some("c")))
    /\ \E c \in Calls : calls[c].result = Some(BucketInfo("a", "1"))
    /\ Len(fetchLog) = 1

\* C7 as stated: however many calls race on the empty cache, at most two
\* fetches are issued (no fetch having failed).
C7_AtMostTwoFetches == NoFetchFailed => Len(fetchLog) <= 2

\* C7 as amended: each call issues at most one fetch, and a fetch is issued
\* only while the cache is empty; so N calls racing on the empty cache issue up
\* to N fetches, and a call that starts once the cache holds a list issues
\* none.
C7_OneFetchPerRacingCall ==
    /\ [](\A c \in Calls : Cardinality(FetchesBy(c)) <= 1)
    /\ [][Len(fetchLog') > Len(fetchLog)
          => bucket_list = None /\ Len(fetchLog') = Len(fetchLog) + 1]_vars

\* three calls raced on the empty cache and each has its fetch under way
C7_Witness ==
    /\ Len(fetchLog) >= 3
    /\ \A i \in 1..Len(fetchLog) : fetchLog[i].outcome = "pending"
    /\ bucket_list = None

\* C8 as stated: once the cache holds a list, no step replaces it.
C8_CacheNeverReplaced ==
    [][bucket_list # None => bucket_list' = bucket_list]_vars

\* C8 as amended: once the cache holds a list, the only step that replaces it
\* is the successful return of a fetch that was issued while the cache was
\* still empty (a call racing with the first population), which stores the
\* list it fetched; no fetch is issued once the cache holds a list, so a call
\* that starts after that leaves the cache as it is.
C8_OnlyRacingFetchReplaces ==
    /\ [][(bucket_list # None /\ bucket_list' # bucket_list)
          => /\ bucket_list' # None
             /\ \E i \in 1..Len(fetchLog) :
                   /\ fetchLog[i].outcome = "pending"
                   /\ fetchLog'[i].outcome = "ok"]_vars
    /\ [][(\E c \in Calls : calls[c].pc # "fetching" /\ calls'[c].pc = "fetching")
          => bucket_list = None]_vars

\* a list_buckets call returned the list it stored, and the cache now holds
\* another one
C8_Witness ==
    \E c \in Calls :
        /\ calls[c].op.name = "list_buckets"
        /\ calls[c].pc = "done"
        /\ Cardinality(FetchesBy(c)) = 1
        /\ bucket_list # None
        /\ calls[c].result # bucket_list

IsGet(c) == calls[c].op.name = "get_bucket_from_name"

\* C9: get_bucket_from_name(n) scans the list the cache holds when the call
\* gets it; it returns the first bucket of that list whose name is exactly n,
\* and raises the not-found error carrying n when the list has none.
C9_ExactFirstMatch ==
    /\ [](\A c \in Calls :
            (IsGet(c) /\ calls[c].bucket_list # None)
            => LET list == Val(calls[c].bucket_list)
                   n == Val(calls[c].op.bucket_name)
                   hits == {i \in 1..Len(list) : list[i].bucketName = n}
               IN IF hits = {}
                  THEN /\ calls[c].pc = "raised"
                       /\ calls[c].error = Some(UnknownBucket(Some(n)))
                       /\ calls[c].result = None
                  ELSE /\ calls[c].pc = "done"
                       /\ calls[c].error = None
                       /\ \E i \in hits :
                             /\ calls[c].result = Some(list[i])
                             /\ Val(calls[c].result).bucketName = n
                             /\ \A j \in hits : i <= j)
    /\ [][\A c \in Calls :
            (IsGet(c)' /\ calls[c].bucket_list = None /\ calls'[c].bucket_list # None)
            => calls'[c].bucket_list = bucket_list']_vars
    /\ [](\A c \in Calls :
            (IsGet(c) /\ Finished(c) /\ calls[c].bucket_list = None)
            => calls[c].error = Some(BackendError("BackendError(401)")))

\* "a" was looked up in a list where "A" comes first and two buckets are
\* named "a", and "c" was looked up in a list that has no such bucket
C9_Witness ==
    /\ \E c \in Calls :
          /\ IsGet(c)
          /\ calls[c].pc = "done"
          /\ Len(Val(calls[c].bucket_list)) = 4
          /\ calls[c].result = Some(BucketInfo("a", "1"))
    /\ \E c \in Calls :
          /\ IsGet(c)
          /\ calls[c].pc = "raised"
          /\ Len(Val(calls[c].bucket_list)) = 4
          /\ calls[c].error = Some(UnknownBucket(Some("c")))

\* upload_file was given both bucket_id and bucket_name
GivenBoth(op) ==
    op.name = "upload_file" /\ op.bucket_id # None /\ op.bucket_name # None

\* C10: an upload_file call given both bucket_id and bucket_name issues no
\* bucket-list fetch, sends one upload request, which carries the given
\* bucket_id, and none of its steps changes the bucket cache.
C10_UploadPrecedence ==
    /\ [](\A c \in Calls :
            GivenBoth(calls[c].op)
            => /\ FetchesBy(c) = {}
               /\ calls[c].pc # "fetching"
               /\ Cardinality(UploadsBy(c)) = 1
               /\ \A i \in UploadsBy(c) :
                     uploadLog[i].bucket_id = Val(calls[c].op.bucket_id))
    /\ [][\A c \in Calls :
            (GivenBoth(calls'[c].op) /\ calls'[c] # calls[c])
            => bucket_list' = bucket_list /\ fetchLog' = fetchLog]_vars

\* an upload with both went through while the cache was empty and nothing
\* had been fetched
C10_Witness ==
    /\ \E c \in Calls : GivenBoth(calls[c].op) /\ calls[c].pc = "done"
    /\ bucket_list = None
    /\ fetchLog = <<>>
    /\ Len(uploadLog) = 1

\* ------------------------------------------------------------------------
\* Further claims about list_file_names
\* ------------------------------------------------------------------------

\* the cap of the call: max_file_count, or 100 when it is omitted
OriginalCap == IF lfnArgs.max_file_count = None
               THEN DefaultMaxFileCount
               ELSE Val(lfnArgs.max_file_count)

RECURSIVE EntriesIn(_, _)
\* the number of entries in the first k pages the transport returned
EntriesIn(resps, k) ==
    IF k = 0 THEN 0 ELSE Length(resps[k].files) + EntriesIn(resps, k - 1)

LastMarker == responses[Len(responses)].nextFileName

\* C11: once a page is appended and the entries accumulated number at least
\* the cap, the loop is over: no request is out or will be sent beyond the
\* pages received.
C11_NoRequestPastCap ==
    (/\ lfnPc \in {"loop", "await", "returned"}
     /\ Len(responses) >= 1
     /\ EntriesIn(responses, Len(responses)) >= OriginalCap)
    => /\ Len(requests) = Len(responses)
       /\ ~lfn.continue_iteration
       /\ lfnPc \in {"loop", "returned"}

\* the call returned after several pages because the cap was reached, the
\* last page still carrying a marker
C11_Witness ==
    /\ lfnPc = "returned"
    /\ Len(responses) >= 2
    /\ LastMarker # None
    /\ Length(Val(lfnResult)) >= OriginalCap
    /\ OriginalCap >= 2

\* C12: once a page came back with no continuation marker, the loop is over,
\* whatever the count: no request follows, and the call is at its return or
\* has returned the accumulated list.
C12_NoRequestPastNullMarker ==
    (/\ lfnPc \in {"loop", "await", "returned"}
     /\ \E i \in 1..Len(responses) : responses[i].nextFileName = None)
    => /\ LastMarker = None
       /\ Len(requests) = Len(responses)
       /\ ~lfn.continue_iteration
       /\ lfnPc \in {"loop", "returned"}
       /\ lfnPc = "returned" => lfnResult = Some(lfn.files)

\* the call returned on a null marker after several pages, well below its cap
C12_Witness ==
    /\ lfnPc = "returned"
    /\ Len(responses) >= 2
    /\ LastMarker = None
    /\ Length(Val(lfnResult)) >= 1
    /\ Length(Val(lfnResult)) < OriginalCap

\* C14: every request after the first asks for the original cap minus the
\* entries accumulated over the pages fetched before it, when that difference
\* is at most 10000.
C14_NextPageSizeIsRemaining ==
    \A i \in 2..Len(requests) :
        LET remaining == OriginalCap - EntriesIn(responses, i - 1)
        IN remaining <= TransportMaxFileCount
           => requests[i].max_file_count = Some(remaining)

\* C15: the list the call returns, and the list it holds after every page, is
\* the concatenation in request order of the pages fetched: the entries the
\* transport served, each once and in the order served.
C15_ResultIsConcatenation ==
    /\ lfnPc \in {"loop", "await", "returned"}
       => /\ lfn.files = Entries(1, EntriesIn(responses, Len(responses)))
          /\ \A i \in 1..Len(responses) :
                responses[i].files =
                    Entries(EntriesIn(responses, i - 1) + 1,
                            Length(responses[i].files))
    /\ lfnPc = "returned" => lfnResult = Some(lfn.files)

\* the call returned several pages, one of them larger than the page_size
\* asked for
C15_Witness ==
    /\ lfnPc = "returned"
    /\ Len(responses) >= 2
    /\ Length(Val(lfnResult)) >= 3
    /\ \E i \in 1..Len(responses) :
          /\ requests[i].max_file_count # None
          /\ Length(responses[i].files) > Val(requests[i].max_file_count)

\* C16: at most one request is out at a time, each sent after the page before
\* it came back; the first starts at the caller's start_file_name, each later
\* one at the marker of the page before it, and bucket_id, prefix and
\* delimiter are the caller's in every request.
C16_SequentialCursor ==
    Called
    => /\ Len(requests) = Len(responses) + (IF lfnPc \in {"await", "raised"} THEN 1 ELSE 0)
       /\ \A i \in 1..Len(requests) :
             /\ requests[i].start_file_name =
                   IF i = 1 THEN lfnArgs.start_file_name
                   ELSE responses[i - 1].nextFileName
             /\ requests[i].bucket_id = lfnArgs.bucket_id
             /\ requests[i].prefix = lfnArgs.prefix
             /\ requests[i].delimiter = lfnArgs.delimiter

\* three requests were sent for a call given a start, a prefix and a delimiter
C16_Witness ==
    /\ Len(requests) >= 3
    /\ lfnArgs.start_file_name # None
    /\ lfnArgs.prefix # None
    /\ requests[3].start_file_name # requests[2].start_file_name

\* every page returned so far held an entry or had no marker
PagesProgress ==
    \A i \in 1..Len(responses) :
        Length(responses[i].files) >= 1 \/ responses[i].nextFileName = None

\* C19: with an explicit cap C >= 1 and a transport whose pages each hold an
\* entry or have no marker, the call sends at most C requests, and the loop is
\* over once C pages came back.
C19_AtMostCapRequests ==
    (ExplicitCap /\ OriginalCap >= 1 /\ PagesProgress)
    => /\ Len(requests) <= OriginalCap
       /\ (lfnPc \in {"loop", "returned"} /\ Len(responses) >= OriginalCap)
          => ~lfn.continue_iteration

\* a call with cap 2 returned after exactly 2 requests, both pages with a
\* marker
C19_Witness ==
    /\ lfnPc = "returned"
    /\ ExplicitCap
    /\ OriginalCap = 2
    /\ Len(requests) = 2
    /\ PagesProgress
    /\ LastMarker # None

\* no page returned so far held more entries than the request asked for
PagesWithinRequest ==
    \A i \in 1..Len(responses) :
        /\ requests[i].max_file_count # None
        /\ Length(responses[i].files) <= Val(requests[i].max_file_count)

\* C20: with an explicit cap C >= 1 and a transport that never returns more
\* entries than asked for, the list held, and returned, has at most C entries.
C20_AtMostCapEntries ==
    (/\ lfnPc \in {"loop", "await", "returned"}
     /\ ExplicitCap
     /\ OriginalCap >= 1
     /\ PagesWithinRequest)
    => /\ Length(lfn.files) <= OriginalCap
       /\ lfnPc = "returned" => Length(Val(lfnResult)) <= OriginalCap

\* a call returned exactly its cap, gathered over two pages none of which
\* exceeded the request
C20_Witness ==
    /\ lfnPc = "returned"
    /\ ExplicitCap
    /\ OriginalCap >= 2
    /\ Len(responses) >= 2
    /\ PagesWithinRequest
    /\ Length(Val(lfnResult)) = OriginalCap

\* ------------------------------------------------------------------------
\* Further claims about the bucket cache and upload_file
\* ------------------------------------------------------------------------

\* upload_file was given a bucket name and no bucket_id
GivenNameOnly(op) ==
    op.name = "upload_file" /\ op.bucket_id = None /\ op.bucket_name # None

\* C17: an upload_file call given only a name sends no upload request before
\* the name is resolved; when the list it got has a bucket of that name, its
\* one upload request carries the id of the first such bucket; when the list
\* has none, or the fetch of the list failed, it sends no upload request and
\* has raised the not-found error, or the error of the fetch.
C17_ResolveBeforeUpload ==
    \A c \in Calls :
        GivenNameOnly(calls[c].op)
        => LET n == Val(calls[c].op.bucket_name)
           IN IF calls[c].bucket_list = None
              THEN /\ UploadsBy(c) = {}
                   /\ calls[c].pc \in {"fetching", "raised"}
                   /\ calls[c].pc = "raised"
                      => /\ calls[c].error = Some(BackendError("BackendError(401)"))
                         /\ \E i \in FetchesBy(c) : fetchLog[i].outcome = "failed"
              ELSE LET list == Val(calls[c].bucket_list)
                       hits == {i \in 1..Len(list) : list[i].bucketName = n}
                   IN IF hits = {}
                      THEN /\ UploadsBy(c) = {}
                           /\ calls[c].pc = "raised"
                           /\ calls[c].error = Some(UnknownBucket(Some(n)))
                      ELSE /\ Cardinality(UploadsBy(c)) = 1
                           /\ \A u \in UploadsBy(c) : \E i \in hits :
                                 /\ uploadLog[u].bucket_id = list[i].bucketId
                                 /\ \A j \in hits : i <= j

\* an upload by name went through with the id of the first bucket of that
\* name, the list having been fetched by this very call
C17_Witness ==
    \E c \in Calls :
        /\ GivenNameOnly(calls[c].op)
        /\ calls[c].pc = "done"
        /\ FetchesBy(c) # {}
        /\ Len(Val(calls[c].bucket_list)) = 4
        /\ \E u \in UploadsBy(c) : uploadLog[u].bucket_id = "1"

\* C18: with the calls made one after the other, a call whose bucket-list
\* fetch failed has raised the transport's error and returned nothing; the
\* cache holds a list only if some fetch succeeded; and a call that goes
\* through list_buckets when every fetch before it failed issues its own fetch.
C18_FailureNotCached ==
    /\ \A i \in 1..Len(fetchLog) :
          fetchLog[i].outcome = "failed"
          => LET c == fetchLog[i].call
             IN /\ calls[c].pc = "raised"
                /\ calls[c].error = Some(BackendError("BackendError(401)"))
                /\ calls[c].result = None
    /\ bucket_list # None
       <=> \E i \in 1..Len(fetchLog) : fetchLog[i].outcome = "ok"
    /\ \A c \in Calls :
          (/\ Started(c)
           /\ UsesBuckets(calls[c].op)
           /\ \A i \in 1..Len(fetchLog) :
                 fetchLog[i].call < c => fetchLog[i].outcome = "failed")
          => FetchesBy(c) # {}

\* a fetch failed, the next call fetched again and that fetch filled the cache
C18_Witness ==
    /\ Len(fetchLog) >= 2
    /\ fetchLog[1].outcome = "failed"
    /\ fetchLog[2].outcome = "ok"
    /\ bucket_list # None
    /\ calls[fetchLog[1].call].error = Some(BackendError("BackendError(401)"))

\* ------------------------------------------------------------------------
\* C13
\* ------------------------------------------------------------------------

\* a close has run to its end
CloseDone == closeRuns >= 1 /\ closePc = "idle"

\* once the block has been left and __aexit__ has returned, close has run,
\* it raised nothing, and a session held by the client is closed; likewise
\* after any close that ran to its end; while __aexit__ is under way close is
\* awaiting the session's close
C13_ReleasedAfterClose ==
    /\ scope = "exited" => CloseDone
    /\ scope = "exiting" => closePc = "awaiting" /\ session # None
    /\ CloseDone => /\ closeError = None
                    /\ session # None => Val(session).closed

\* C13: leaving the block, normally or by an exception, always runs close,
\* after which a session held by the client is closed; close on a client
\* that holds no session completes without an error
C13_ExitAlwaysCloses ==
    /\ []C13_ReleasedAfterClose
    /\ [][scope = "in" /\ scope' # "in" => closeRuns' = closeRuns + 1]_vars

\* the block was left by an exception after the transport had opened a
\* session for a fetch, and the session is now closed
C13_Witness ==
    /\ scope = "exited"
    /\ scopeExc # None
    /\ fetchLog # <<>>
    /\ session # None
    /\ Val(session).closed

====
